---- MODULE Spec2Model ----
(***************************************************************************)
(* Narrative session worker.                                               *)
(*                                                                         *)
(* Part 1 models the Durable Object NarrativeDO of src/worker/index.ts:    *)
(* its in-memory narrativeState, its two storage keys, and its fetch       *)
(* handler (/update with the CLEAR_NARRATIVE command, /finalize).          *)
(*                                                                         *)
(* Strings are run-length encoded: a string is a sequence of runs          *)
(* [c |-> character, n |-> repetitions >= 1] in which adjacent runs carry  *)
(* different characters, so that two strings are equal exactly when their  *)
(* encodings are equal and a 1000-character answer is still a short value. *)
(***************************************************************************)
EXTENDS Integers, Sequences, FiniteSets, TLC

(* ------------------------------ bounds --------------------------------- *)
\* answers beyond this position are drawn from FillerInputs only
MaxVaried == 1
\* largest value of the clock
MaxTime == 1
\* finalize requests that may be awaiting the generation service at once
MaxPending == 1
\* CLEAR_NARRATIVE requests accepted in one behaviour
MaxResets == 1
\* finalize requests that reach the generation service in one behaviour
MaxFinalizes == 2
\* answers accepted in one behaviour
MaxAppends == 3
\* requests the KV worker receives in one behaviour
MaxKvRequests == 3
\* requests of the KV worker that may be suspended at once
MaxKvInFlight == 2

MaxRouteRequests == 4
\* checks the rate limiter makes in one behaviour
MaxRateChecks == 4
\* checks that may be suspended at once
MaxRateInFlight == 2
\* windows after the first one that the clock runs through
MaxRateWindows == 1

(* ------------------------- program constants --------------------------- *)
MaxAnswers == 20
MaxAnswerLength == 1000
ScoreCap == 100
MaxUserIdLength == 100
RateWindowMs == 60000
RateMax == 10

(* ------------------------------ strings -------------------------------- *)
R(c, n) == [c |-> c, n |-> n]

Whitespace == {" ", "\n"}

Last(s) == s[Len(s)]

Front(s) == SubSeq(s, 1, Len(s) - 1)

\* s + t
Concat(s, t) ==
  IF s = <<>> THEN t
  ELSE IF t = <<>> THEN s
  ELSE IF Last(s).c = Head(t).c
       THEN Front(s) \o <<R(Head(t).c, Last(s).n + Head(t).n)>> \o Tail(t)
       ELSE s \o t

\* s.length
RECURSIVE StrLen(_)
StrLen(s) == IF s = <<>> THEN 0 ELSE Head(s).n + StrLen(Tail(s))

RECURSIVE TrimStart(_)
TrimStart(s) ==
  IF s # <<>> /\ Head(s).c \in Whitespace THEN TrimStart(Tail(s)) ELSE s

RECURSIVE TrimEnd(_)
TrimEnd(s) ==
  IF s # <<>> /\ Last(s).c \in Whitespace THEN TrimEnd(Front(s)) ELSE s

\* s.trim()
Trim(s) == TrimEnd(TrimStart(s))

\* answers.join('\n')
RECURSIVE Join(_)
Join(a) ==
  IF a = <<>> THEN <<>>
  ELSE IF Len(a) = 1 THEN a[1]
  ELSE Concat(Concat(a[1], <<R("\n", 1)>>), Join(Tail(a)))

\* hay.includes(needle)
Contains(hay, needle) ==
  LET k == Len(needle) IN
  IF k = 0 THEN TRUE
  ELSE IF k = 1
       THEN \E i \in 1..Len(hay) : hay[i].c = needle[1].c /\ hay[i].n >= needle[1].n
       ELSE \E i \in 1..(Len(hay) - k + 1) :
              /\ hay[i].c = needle[1].c /\ hay[i].n >= needle[1].n
              /\ hay[i + k - 1].c = needle[k].c /\ hay[i + k - 1].n >= needle[k].n
              /\ \A j \in 2..(k - 1) : hay[i + j - 1] = needle[j]

(* ------------------------------ literals ------------------------------- *)
ClearCommand ==
  <<R("C", 1), R("L", 1), R("E", 1), R("A", 1), R("R", 1), R("_", 1), R("N", 1), R("A", 1), R("R", 2), R("A", 1), R("T", 1), R("I", 1), R("V", 1), R("E", 1)>>

ThrowPrefix ==
  <<R("F", 1), R("i", 1), R("n", 1), R("a", 1), R("l", 1), R(" ", 1), R("N", 1), R("a", 1), R("r", 2), R("a", 1), R("t", 1), R("i", 1), R("v", 1), R("e", 1), R(":", 1), R(" ", 1)>>

FallbackPrefix ==
  <<R("F", 1), R("i", 1), R("n", 1), R("a", 1), R("l", 1), R(" ", 1), R("N", 1), R("a", 1), R("r", 2), R("a", 1), R("t", 1), R("i", 1), R("v", 1), R("e", 1), R(" ", 1), R("(", 1), R("f", 1), R("a", 1), R("l", 2), R("b", 1), R("a", 1), R("c", 1), R("k", 1), R(")", 1), R(":", 1), R(" ", 1)>>

Hello ==
  <<R("h", 1), R("e", 1), R("l", 2), R("o", 1)>>

WorldRaw ==
  <<R(" ", 2), R("w", 1), R("o", 1), R("r", 1), R("l", 1), R("d", 1), R("!", 2), R(" ", 2)>>

Blank ==
  <<R(" ", 3)>>

GeneratedText ==
  <<R("O", 1), R("n", 1), R("c", 1), R("e", 1), R(" ", 1), R("u", 1), R("p", 1), R("o", 1), R("n", 1), R(" ", 1), R("a", 1), R(" ", 1), R("j", 1), R("a", 1), R("m", 1)>>

\* a narrativeText that is not a string
NonStringText ==
  <<R("0", 1)>>

InsufficientText == "Insufficient answers to finalize narrative"

X1000 ==
  <<R("x", MaxAnswerLength)>>

X1001 ==
  <<R("x", MaxAnswerLength + 1)>>

PaddedX1000 ==
  <<R(" ", 1), R("x", MaxAnswerLength)>>

(* --------------------------- request inputs ---------------------------- *)
\* Body of a POST /update request.  kind is "badjson" (request.json() rejects),
\* "null" (the JSON value null), "nonstring" (an object whose answer is absent
\* or not a string) or "string" (an object whose answer is the string answer).
Payload(kind, answer) == [kind |-> kind, answer |-> answer]

ValidInputs == {Hello, WorldRaw, X1000}

FillerInputs == {Hello}

InvalidInputs == {<<>>, Blank, X1001, PaddedX1000}

\* answer strings offered to a session that holds len answers
AnswerInputs(len) ==
  InvalidInputs \cup (IF len < MaxVaried THEN ValidInputs ELSE FillerInputs)

(* ---------------------- generation service replies --------------------- *)
\* What `await this.env.AI.run(...)` produces: it throws, or it resolves to a
\* value described by the facts the handler inspects.
AiReply(throws, truthy, isArray, len, firstNullish, message, contentIsString) ==
  [throws |-> throws, truthy |-> truthy, choicesIsArray |-> isArray,
   choicesLength |-> len, firstNullish |-> firstNullish,
   messageTruthy |-> message, contentIsString |-> contentIsString]

AiThrows == AiReply(TRUE, FALSE, FALSE, 0, FALSE, FALSE, FALSE)

AiText == AiReply(FALSE, TRUE, TRUE, 1, FALSE, TRUE, TRUE)

AiNull == AiReply(FALSE, FALSE, FALSE, 0, FALSE, FALSE, FALSE)

AiNoChoices == AiReply(FALSE, TRUE, FALSE, 0, FALSE, FALSE, FALSE)

AiEmptyChoices == AiReply(FALSE, TRUE, TRUE, 0, FALSE, FALSE, FALSE)

AiFirstNullish == AiReply(FALSE, TRUE, TRUE, 1, TRUE, FALSE, FALSE)

AiNoMessage == AiReply(FALSE, TRUE, TRUE, 1, FALSE, FALSE, FALSE)

AiNonStringContent == AiReply(FALSE, TRUE, TRUE, 1, FALSE, TRUE, FALSE)

AiReplies ==
  {AiThrows, AiText, AiNull, AiNoChoices, AiEmptyChoices, AiFirstNullish,
   AiNoMessage, AiNonStringContent}

(* ------------------------------- state --------------------------------- *)
VARIABLES
  narrativeState,  \* this.narrativeState of the live NarrativeDO instance
  storage,         \* state.storage: each key holds <<>> (absent) or <<value>>
  pending,         \* /finalize requests suspended at `await this.env.AI.run`
  now,             \* Date.now()
  resp,            \* the response most recently returned by fetch
  accepted,        \* answers acknowledged with 200 since the session was last empty
  aiCalls,         \* calls of this.env.AI.run made so far
  resets,          \* CLEAR_NARRATIVE commands executed so far
  appends,         \* answers accepted so far by this incarnation and its successors
  loading,         \* the constructor's blockConcurrencyWhile callback has not finished
  kv,              \* the KV namespace narrativesjamkiller: key -> <<>> or <<value>>
  kvReqs,          \* requests of the KV worker suspended at an await
  kvResp,          \* the response most recently returned by the KV worker
  kvStarted,       \* requests the KV worker has received so far
  actors,          \* the instances of NarrativeDO: id -> <<>> or <<instance>>
  routed,          \* the response most recently returned by the routing worker
  routeStarted,    \* requests the routing worker has received so far
  rateKv,          \* the KV namespace RATE_LIMIT_KV: ip -> <<>> or <<counter>>
  rateReqs,        \* requests suspended at an await of the rate limiting middleware
  rateResp,        \* the outcome of the check that completed most recently
  rateStarted,     \* requests that have entered the middleware so far
  rateGhost,       \* per ip: the window its checks are counted in
  limiter,         \* the Map of the in-memory limiter: key -> <<>> or <<[count, reset]>>
  memResp,         \* the outcome of the in-memory limiter's most recent check
  memStarted       \* requests the in-memory limiter has seen so far

doVars ==
  <<narrativeState, storage, pending, resp, accepted, aiCalls, resets, appends,
    loading>>

kvVars == <<kv, kvReqs, kvResp, kvStarted>>

routeVars == <<actors, routed, routeStarted>>

\* what the Durable Object leaves alone, and what the KV worker leaves alone
rateVars == <<rateKv, rateReqs, rateResp, rateStarted, rateGhost>>

memVars == <<limiter, memResp, memStarted>>

notDo == <<kvVars, routeVars, rateVars, memVars>>

notKv == <<doVars, now, routeVars, rateVars, memVars>>

vars == <<doVars, now, kvVars, routeVars, rateVars, memVars>>

Absent == <<>>

Session(answers, createdAt, lastUpdated) ==
  [answers |-> answers, createdAt |-> createdAt, lastUpdated |-> lastUpdated]

\* numbers that may be NaN
Num(v) == [nan |-> FALSE, val |-> v]

NaN == [nan |-> TRUE, val |-> 0]

Min(a, b) == IF a <= b THEN a ELSE b

\* A response of fetch: the operation and request body it answers, the HTTP
\* status, the error text, the answerCount of an /update success and the data
\* of a /finalize success.  basis and prior are not part of the response.
\* basis records the answers from which the answered /finalize built its
\* prompt, or the answers a CLEAR_NARRATIVE discarded; prior records the
\* content of the 'finalNarrative' key before the request changed it.
Response(op, request, status, error, answerCount, data, basis, prior) ==
  [op |-> op, request |-> request, status |-> status, error |-> error,
   answerCount |-> answerCount, data |-> data, basis |-> basis, prior |-> prior]

NoPayload == [kind |-> "none", answer |-> <<>>]

ErrorResponse(op, request, status, error) ==
  Response(op, request, status, error, 0, <<>>, <<>>, <<>>)

NoResponse == ErrorResponse("none", NoPayload, 0, "")

(* --------------------------- NarrativeDO ------------------------------- *)
\* A session that an earlier incarnation collected and persisted: it is
\* MaxAppends - 1 answers short of the capacity.
SeedSession ==
  Session([i \in 1..(MaxAnswers - MaxAppends + 1) |-> Hello], 0, 0)

\* The object was constructed at time t over an empty storage, or over a
\* storage that holds SeedSession, which the constructor loaded.
DoConstructed(t) ==
  /\ \/ /\ storage = [narrativeState |-> Absent, finalNarrative |-> Absent]
        /\ narrativeState = Session(<<>>, t, t)
     \/ /\ storage = [narrativeState |-> <<SeedSession>>, finalNarrative |-> Absent]
        /\ narrativeState = SeedSession
  /\ pending = <<>>
  /\ resp = NoResponse
  /\ accepted = Len(narrativeState.answers)
  /\ aiCalls = 0
  /\ resets = 0
  /\ appends = 0
  /\ loading = FALSE

DoInit == now = 0 /\ DoConstructed(now)

\* The instance is discarded and constructed again: the constructor sets the
\* default state (lines 33-34) and starts blockConcurrencyWhile (line 35).
\* Requests in flight die with the old instance.
Constructor ==
  /\ narrativeState' = Session(<<>>, now, now)
  /\ loading' = TRUE
  /\ pending' = <<>>
  /\ resp' = NoResponse
  /\ UNCHANGED <<storage, now, accepted, aiCalls, resets, appends>>

\* the callback of blockConcurrencyWhile (lines 36-42): the stored session, if
\* there is one, replaces the default
ConstructorLoad ==
  /\ loading
  /\ loading' = FALSE
  /\ narrativeState' =
       IF storage.narrativeState # Absent
       THEN storage.narrativeState[1]
       ELSE narrativeState
  /\ UNCHANGED <<storage, pending, now, resp, accepted, aiCalls, resets, appends>>

\* an input gate that lets requests in while the constructor is loading
InputGateAlwaysOpen == TRUE

\* blockConcurrencyWhile (line 35) holds back every request until its
\* callback has finished
InputGateOpen == ~loading

Tick ==
  /\ now < MaxTime
  /\ now' = now + 1
  /\ UNCHANGED <<narrativeState, storage, pending, resp, accepted, aiCalls, resets, appends>>

\* OPTIONS, or any request that is neither POST /update nor POST /finalize
OtherRequest ==
  /\ \E r \in {Response("options", NoPayload, 204, "", 0, <<>>, <<>>, <<>>),
               ErrorResponse("other", NoPayload, 404, "Not found")} : resp' = r
  /\ UNCHANGED <<narrativeState, storage, pending, now, accepted, aiCalls, resets, appends>>

\* the validation of lines 103-108 without the test of the trimmed text
InvalidAnswerNoTrim(answer) ==
  \/ answer = <<>>
  \/ StrLen(answer) > MaxAnswerLength

\* the validation of lines 103-108
InvalidAnswer(answer) ==
  \/ answer = <<>>
  \/ StrLen(Trim(answer)) = 0
  \/ StrLen(answer) > MaxAnswerLength

\* the capacity check with its comparison off by one
SessionFullOffByOne(state) == Len(state.answers) > MaxAnswers

\* no capacity check at all
SessionFullUnchecked(state) == FALSE

\* a capacity check that also locks a session that has a final record
SessionFullOrFinalized(state) ==
  Len(state.answers) >= MaxAnswers \/ storage.finalNarrative # Absent

SessionFull(state) == Len(state.answers) >= MaxAnswers

\* a push that stamps createdAt as well
PushAnswerRestamping(state, answer, t) ==
  Session(Append(state.answers, Trim(answer)), t, t)

\* a push that replaces the list instead of extending it
PushAnswerReplacing(state, answer, t) ==
  Session(<<Trim(answer)>>, state.createdAt, t)

\* lines 122-125
PushAnswer(state, answer, t) ==
  Session(Append(state.answers, Trim(answer)), state.createdAt, t)

\* a clear that forgets to delete the final record
StorageAfterClearKeepingFinal(fresh) ==
  [narrativeState |-> <<fresh>>, finalNarrative |-> storage.finalNarrative]

\* state.storage after lines 94-95
StorageAfterClear(fresh) ==
  [narrativeState |-> <<fresh>>, finalNarrative |-> Absent]

\* a put of the session that also drops the final record
StorageAfterPushDroppingFinal(state) ==
  [narrativeState |-> <<state>>, finalNarrative |-> Absent]

\* state.storage after line 126
StorageAfterPush(state) == [storage EXCEPT !.narrativeState = <<state>>]

\* POST /update
Update(p) ==
  /\ UNCHANGED <<pending, now, aiCalls>>
  /\ IF p.kind = "badjson" THEN
       /\ resp' = ErrorResponse("update", p, 400, "Invalid JSON payload")
       /\ UNCHANGED <<narrativeState, storage, accepted, resets, appends>>
     ELSE IF p.kind = "null" THEN
       \* destructuring null throws; the outer catch answers 500
       /\ resp' = ErrorResponse("update", p, 500, "Internal server error")
       /\ UNCHANGED <<narrativeState, storage, accepted, resets, appends>>
     ELSE IF p.kind = "string" /\ p.answer = ClearCommand THEN
       /\ resets < MaxResets
       /\ narrativeState' = Session(<<>>, now, now)
       /\ storage' = StorageAfterClear(narrativeState')
       /\ resp' = Response("clear", p, 200, "", 0, <<>>, narrativeState.answers,
                           storage.finalNarrative)
       /\ accepted' = 0
       /\ resets' = resets + 1
       /\ UNCHANGED appends
     ELSE IF p.kind # "string" \/ InvalidAnswer(p.answer) THEN
       /\ resp' = ErrorResponse("update", p, 400, "Invalid answer provided")
       /\ UNCHANGED <<narrativeState, storage, accepted, resets, appends>>
     ELSE IF SessionFull(narrativeState) THEN
       /\ resp' = ErrorResponse("update", p, 400, "Maximum number of answers reached")
       /\ UNCHANGED <<narrativeState, storage, accepted, resets, appends>>
     ELSE
       /\ appends < MaxAppends
       /\ appends' = appends + 1
       /\ narrativeState' = PushAnswer(narrativeState, p.answer, now)
       /\ storage' = StorageAfterPush(narrativeState')
       /\ resp' = Response("update", p, 200, "", Len(narrativeState'.answers),
                           <<>>, <<>>, <<>>)
       /\ accepted' = accepted + 1
       /\ UNCHANGED resets

UpdateRequest ==
  \/ \E kind \in {"badjson", "null", "nonstring"} : Update(Payload(kind, <<>>))
  \/ \E a \in AnswerInputs(Len(narrativeState.answers)) \cup {ClearCommand} :
       Update(Payload("string", a))

\* the continuation of a /finalize request suspended at the generation call:
\* the promptContent captured by the closure, and the answers it was joined from
Continuation(answers) == [promptContent |-> Join(answers), answers |-> answers]

\* the value of aiResponse after the inner try/catch of lines 165-175
AiResponse(reply, promptContent) ==
  IF reply.throws
  THEN [shape |-> AiText, content |-> Concat(ThrowPrefix, promptContent)]
  ELSE [shape |-> reply, content |-> GeneratedText]

\* evaluating the condition of lines 179-185 dereferences a null or undefined
\* choices[0]
ShapeCheckThrows(shape) ==
  /\ shape.truthy
  /\ shape.choicesIsArray
  /\ shape.choicesLength > 0
  /\ shape.firstNullish

\* the condition of lines 179-185
ShapeCheck(shape) ==
  /\ shape.truthy
  /\ shape.choicesIsArray
  /\ shape.choicesLength > 0
  /\ shape.messageTruthy
  /\ shape.contentIsString

FinalNarrativeText(aiResponse, promptContent) ==
  IF ShapeCheck(aiResponse.shape)
  THEN aiResponse.content
  ELSE Concat(FallbackPrefix, promptContent)

RECURSIVE TotalAnswerLength(_)
TotalAnswerLength(answers) ==
  IF answers = <<>> THEN 0 ELSE StrLen(Head(answers)) + TotalAnswerLength(Tail(answers))

\* a count factor that keeps growing past ten answers
CountFactorUncapped(n) == 2 * n

\* answerCountFactor * 20 = Math.min(n / 10, 1) * 20
CountFactorTimes20(n) == IF n >= 10 THEN 20 ELSE 2 * n

\* lines 193-202; 0 / 0 is NaN and stays NaN through floor and min
MojoScore(answers) ==
  LET n == Len(answers)
      total == TotalAnswerLength(answers)
  IN IF n = 0 THEN NaN
     ELSE Num(Min((10 * total) \div n + CountFactorTimes20(n), ScoreCap))

FinalNarrativeData(text, answers, timestamp) ==
  [narrativeText |-> text, mojoScore |-> MojoScore(answers), timestamp |-> timestamp,
   answerCount |-> Len(answers), processingTime |-> 0]

\* a precondition that refuses every session
InsufficientAnswersAlways(state) == Len(state.answers) >= 0

\* a precondition that lets an empty session through
InsufficientAnswersNever(state) == Len(state.answers) < 0

\* line 140
InsufficientAnswers(state) == Len(state.answers) < 1

\* POST /finalize up to the point where it awaits the generation service
FinalizeStart ==
  IF InsufficientAnswers(narrativeState) THEN
    /\ resp' = ErrorResponse("finalize", NoPayload, 400, InsufficientText)
    /\ UNCHANGED <<narrativeState, storage, pending, now, accepted, aiCalls, resets, appends>>
  ELSE
    /\ Len(pending) < MaxPending
    /\ aiCalls < MaxFinalizes
    /\ pending' = Append(pending, Continuation(narrativeState.answers))
    /\ aiCalls' = aiCalls + 1
    /\ UNCHANGED <<narrativeState, storage, now, resp, accepted, resets, appends>>

RemoveAt(s, i) == SubSeq(s, 1, i - 1) \o SubSeq(s, i + 1, Len(s))

\* a finalize that deletes the session it has finalized
StorageAfterFinalizeDroppingSession(data) ==
  [narrativeState |-> Absent, finalNarrative |-> <<data>>]

\* state.storage after line 214
StorageAfterFinalize(data) == [storage EXCEPT !.finalNarrative = <<data>>]

\* POST /finalize from the point where the generation call settles
FinalizeResume(i, reply) ==
  LET k == pending[i]
      aiResponse == AiResponse(reply, k.promptContent)
      data == FinalNarrativeData(FinalNarrativeText(aiResponse, k.promptContent),
                                 narrativeState.answers, now)
  IN /\ pending' = RemoveAt(pending, i)
     /\ UNCHANGED <<narrativeState, now, accepted, aiCalls, resets, appends>>
     /\ IF ShapeCheckThrows(aiResponse.shape) THEN
          /\ resp' = ErrorResponse("finalize", NoPayload, 500, "Internal server error")
          /\ UNCHANGED storage
        ELSE
          /\ storage' = StorageAfterFinalize(data)
          /\ resp' = Response("finalize", NoPayload, 200, "", 0, <<data>>, k.answers,
                              storage.finalNarrative)

FinalizeSettles == \E i \in 1..Len(pending) : \E reply \in AiReplies : FinalizeResume(i, reply)

(* ------------------------- storage failures ---------------------------- *)
\* a storage failure that the handler swallows
StorageFailureSwallowed(op, p) == Response(op, p, 200, "", 0, <<>>, <<>>, <<>>)

\* a storage call rejects inside the try of fetch: the outer catch (lines
\* 228-234) answers 500
StorageFailureResponse(op, p) == ErrorResponse(op, p, 500, "Internal server error")

\* POST /update whose storage call `call` rejects: the put of line 126 after
\* the push, or the put of line 94 or the delete of line 95 after the reset
UpdateStorageFails(p, call) ==
  /\ p.kind = "string"
  /\ UNCHANGED <<pending, now, aiCalls>>
  /\ IF p.answer = ClearCommand THEN
       /\ resets < MaxResets
       /\ resets' = resets + 1
       /\ narrativeState' = Session(<<>>, now, now)
       /\ storage' = IF call = "put" THEN storage
                     ELSE [storage EXCEPT !.narrativeState = <<narrativeState'>>]
       /\ resp' = StorageFailureResponse("clear", p)
       /\ accepted' = 0
       /\ UNCHANGED appends
     ELSE
       /\ call = "put"
       /\ ~InvalidAnswer(p.answer)
       /\ ~SessionFull(narrativeState)
       /\ appends < MaxAppends
       /\ appends' = appends + 1
       /\ narrativeState' = PushAnswer(narrativeState, p.answer, now)
       /\ resp' = StorageFailureResponse("update", p)
       /\ UNCHANGED <<storage, accepted, resets>>

UpdateStorageFailure ==
  \E a \in AnswerInputs(Len(narrativeState.answers)) \cup {ClearCommand} :
    \E call \in {"put", "delete"} : UpdateStorageFails(Payload("string", a), call)

(* ------------------- KV worker (src/unnamed/part_001) ------------------ *)
\* The worker keeps each session under the key userId and each final record
\* under userId + "_final" of one KV namespace.  A handler runs until its next
\* await; other requests of the worker run in between.
KvUsers == {"u", "u_final"}

LongUserId ==
  "uuuuuuuuuuuuuuuuuuuuuuuuuuuuuuuuuuuuuuuuuuuuuuuuuuuuuuuuuuuuuuuuuuuuuuuuuuuuuuuuuuuuuuuuuuuuuuuuuuuuu"

FinalKey(userId) == userId \o "_final"

KvKeys == KvUsers \cup {FinalKey(u) : u \in KvUsers}

\* line 152 and line 230
InvalidUserId(userId) == userId = "" \/ Len(userId) > MaxUserIdLength

\* JSON.stringify of a NarrativeState
SessionJson(state) ==
  [type |-> "session", answers |-> state.answers, createdAt |-> state.createdAt,
   lastUpdated |-> state.lastUpdated]

\* JSON.stringify of a FinalNarrativeData
FinalJson(data) ==
  [type |-> "final", narrativeText |-> data.narrativeText,
   mojoScore |-> data.mojoScore, timestamp |-> data.timestamp,
   answerCount |-> data.answerCount, processingTime |-> data.processingTime]

\* JSON.parse(text).answers is an array
HasAnswers(json) == json.type = "session"

\* JSON.parse of a stored session
ParseSession(json) == Session(json.answers, json.createdAt, json.lastUpdated)

KvRequest(op, userId, pc, startTime, answer, state, data) ==
  [op |-> op, userId |-> userId, pc |-> pc, startTime |-> startTime,
   answer |-> answer, state |-> state, data |-> data]

\* a session that earlier requests collected: one answer short of the capacity
KvSeedSession ==
  Session([i \in 1..(MaxAnswers - 1) |-> Hello], 0, 0)

KvInit ==
  /\ \E seed \in {Absent, <<SessionJson(KvSeedSession)>>} :
       kv = [k \in KvKeys |-> IF k = "u" THEN seed ELSE Absent]
  /\ kvReqs = <<>>
  /\ kvResp = NoResponse
  /\ kvStarted = 0

KvAnswerInputs == {Hello, WorldRaw, Blank, X1001}

KvAdmit == kvStarted < MaxKvRequests /\ Len(kvReqs) < MaxKvInFlight

\* POST /narrative/update/:userId up to `await kv.get(userId)`
KvUpdateStart(userId, p) ==
  /\ KvAdmit
  /\ kvStarted' = kvStarted + 1
  /\ UNCHANGED kv
  /\ IF InvalidUserId(userId) THEN
       /\ kvResp' = ErrorResponse("kvupdate", p, 400, "Invalid user ID")
       /\ UNCHANGED kvReqs
     ELSE IF p.kind \in {"badjson", "null"} THEN
       \* c.req.json() rejects, or destructuring null throws: the outer catch
       /\ kvResp' = ErrorResponse("kvupdate", p, 500, "Internal server error")
       /\ UNCHANGED kvReqs
     ELSE IF p.kind # "string" \/ InvalidAnswer(p.answer) THEN
       /\ kvResp' = ErrorResponse("kvupdate", p, 400, "Invalid answer provided")
       /\ UNCHANGED kvReqs
     ELSE
       /\ kvReqs' = Append(kvReqs, KvRequest("update", userId, "get", now,
                                             Trim(p.answer), <<>>, <<>>))
       /\ UNCHANGED kvResp

\* lines 167-195: the get settles and the new state is built
KvUpdateGet(i) ==
  LET r == kvReqs[i]
      existingData == kv[r.userId]
      fresh == Session(<<r.answer>>, now, now)
  IN /\ r.op = "update" /\ r.pc = "get"
     /\ UNCHANGED <<kv, kvStarted>>
     /\ IF /\ existingData # Absent
           /\ HasAnswers(existingData[1])
           /\ SessionFull(ParseSession(existingData[1])) THEN
          /\ kvResp' = ErrorResponse("kvupdate", Payload("string", r.answer), 400,
                                     "Maximum number of answers reached")
          /\ kvReqs' = RemoveAt(kvReqs, i)
        ELSE
          /\ kvReqs' =
               [kvReqs EXCEPT ![i] =
                  [r EXCEPT !.pc = "put",
                            !.state =
                               IF existingData # Absent /\ HasAnswers(existingData[1])
                               THEN <<PushAnswer(ParseSession(existingData[1]), r.answer, now)>>
                               \* nothing stored, or state.answers.length throws
                               \* inside the try: start fresh
                               ELSE <<fresh>>]]
          /\ UNCHANGED kvResp

\* lines 200-215: the put settles
KvUpdatePut(i, ok) ==
  LET r == kvReqs[i] IN
  /\ r.op = "update" /\ r.pc = "put"
  /\ kvReqs' = RemoveAt(kvReqs, i)
  /\ UNCHANGED kvStarted
  /\ IF ok THEN
       /\ kv' = [kv EXCEPT ![r.userId] = <<SessionJson(r.state[1])>>]
       /\ kvResp' = Response("kvupdate", Payload("string", r.answer), 200, "",
                             Len(r.state[1].answers), <<>>, <<>>, <<>>)
     ELSE
       /\ kvResp' = ErrorResponse("kvupdate", Payload("string", r.answer), 500,
                                  "Failed to save narrative state")
       /\ UNCHANGED kv

\* POST /narrative/finalize/:userId up to `await kv.get(userId)`
KvFinalizeStart(userId) ==
  /\ KvAdmit
  /\ kvStarted' = kvStarted + 1
  /\ UNCHANGED kv
  /\ IF InvalidUserId(userId) THEN
       /\ kvResp' = ErrorResponse("kvfinalize", NoPayload, 400, "Invalid user ID")
       /\ UNCHANGED kvReqs
     ELSE
       /\ kvReqs' = Append(kvReqs, KvRequest("finalize", userId, "get", now,
                                             <<>>, <<>>, <<>>))
       /\ UNCHANGED kvResp

\* lines 234-261: the get settles; the prompt is built and the generation
\* service is called
KvFinalizeGet(i) ==
  LET r == kvReqs[i]
      stored == kv[r.userId]
  IN /\ r.op = "finalize" /\ r.pc = "get"
     /\ UNCHANGED <<kv, kvStarted>>
     /\ IF stored = Absent THEN
          /\ kvResp' = ErrorResponse("kvfinalize", NoPayload, 404,
                                     "No narrative state found for this user")
          /\ kvReqs' = RemoveAt(kvReqs, i)
        ELSE IF ~HasAnswers(stored[1]) THEN
          \* state.answers.length throws: the outer catch
          /\ kvResp' = ErrorResponse("kvfinalize", NoPayload, 500, "Internal server error")
          /\ kvReqs' = RemoveAt(kvReqs, i)
        ELSE IF InsufficientAnswers(ParseSession(stored[1])) THEN
          /\ kvResp' = ErrorResponse("kvfinalize", NoPayload, 400, InsufficientText)
          /\ kvReqs' = RemoveAt(kvReqs, i)
        ELSE
          /\ kvReqs' = [kvReqs EXCEPT ![i] =
                          [r EXCEPT !.pc = "ai", !.state = <<ParseSession(stored[1])>>]]
          /\ UNCHANGED kvResp

\* `aiResponse.choices[0].message.content` of line 262 throws
KvContentThrows(shape) ==
  \/ ~shape.truthy
  \/ ~shape.choicesIsArray
  \/ shape.choicesLength = 0
  \/ shape.firstNullish
  \/ ~shape.messageTruthy

\* the value of `aiResponse.choices[0].message.content` when it does not throw
KvContent(shape) == IF shape.contentIsString THEN GeneratedText ELSE NonStringText

\* lines 261-282: the generation call settles; the record is built and put
KvFinalizeAi(i, reply) ==
  LET r == kvReqs[i]
      state == r.state[1]
      data == [FinalNarrativeData(KvContent(reply), state.answers, now)
                 EXCEPT !.processingTime = now - r.startTime]
  IN /\ r.op = "finalize" /\ r.pc = "ai"
     /\ UNCHANGED <<kv, kvStarted>>
     /\ IF reply.throws \/ KvContentThrows(reply) THEN
          \* no inner try/catch: the outer catch answers 500
          /\ kvResp' = Response("kvfinalize", NoPayload, 500, "Internal server error",
                                0, <<>>, state.answers, <<>>)
          /\ kvReqs' = RemoveAt(kvReqs, i)
        ELSE
          /\ kvReqs' = [kvReqs EXCEPT ![i] = [r EXCEPT !.pc = "put", !.data = <<data>>]]
          /\ UNCHANGED kvResp

\* lines 282-287: the put of the final record settles
KvFinalizePut(i, ok) ==
  LET r == kvReqs[i] IN
  /\ r.op = "finalize" /\ r.pc = "put"
  /\ kvReqs' = RemoveAt(kvReqs, i)
  /\ UNCHANGED kvStarted
  /\ IF ok THEN
       /\ kv' = [kv EXCEPT ![FinalKey(r.userId)] = <<FinalJson(r.data[1])>>]
       /\ kvResp' = Response("kvfinalize", NoPayload, 200, "", 0, r.data,
                             r.state[1].answers, kv[FinalKey(r.userId)])
     ELSE
       /\ kvResp' = ErrorResponse("kvfinalize", NoPayload, 500, "Internal server error")
       /\ UNCHANGED kv

KvUpdateRequest ==
  \E userId \in KvUsers \cup {LongUserId} :
    \/ \E kind \in {"badjson", "null", "nonstring"} :
         KvUpdateStart(userId, Payload(kind, <<>>))
    \/ \E a \in KvAnswerInputs : KvUpdateStart(userId, Payload("string", a))

KvFinalizeRequest == \E userId \in KvUsers \cup {LongUserId} : KvFinalizeStart(userId)

KvUpdateGetSettles == \E i \in 1..Len(kvReqs) : KvUpdateGet(i)

KvUpdatePutSettles == \E i \in 1..Len(kvReqs) : \E ok \in BOOLEAN : KvUpdatePut(i, ok)

KvFinalizeGetSettles == \E i \in 1..Len(kvReqs) : KvFinalizeGet(i)

KvFinalizeAiSettles ==
  \E i \in 1..Len(kvReqs) : \E reply \in AiReplies : KvFinalizeAi(i, reply)

KvFinalizePutSettles == \E i \in 1..Len(kvReqs) : \E ok \in BOOLEAN : KvFinalizePut(i, ok)

(* ------------- routing worker (src/worker/index.ts 281-313) ------------- *)
\* the user ids requests are addressed to; the last one is refused by line 283
RouteUsers == {"alice", "bob", LongUserId}

\* an id function under which every name yields the same instance
IdFromNameColliding(userId) == "alice"

\* NARRATIVE_DO.idFromName: a deterministic id, distinct for distinct names
IdFromName(userId) == userId

RouteIds == {IdFromName(u) : u \in {u \in RouteUsers : ~InvalidUserId(u)}}

\* an instance of NarrativeDO: its fields and its own storage
Actor(state, stored, suspended) ==
  [narrativeState |-> state, storage |-> stored, pending |-> suspended]

\* the instance NARRATIVE_DO.get(id) delivers to: the live one, or one
\* constructed at time t over an empty storage
Instance(id, t) ==
  IF actors[id] # Absent THEN actors[id][1]
  ELSE Actor(Session(<<>>, t, t),
             [narrativeState |-> Absent, finalNarrative |-> Absent], <<>>)

\* POST /update in the instance a at time t: the instance afterwards and the
\* status of the response
ActorUpdate(a, p, t) ==
  IF p.kind = "badjson" THEN [actor |-> a, status |-> 400]
  ELSE IF p.kind = "null" THEN [actor |-> a, status |-> 500]
  ELSE IF p.kind = "string" /\ p.answer = ClearCommand THEN
    [actor |-> Actor(Session(<<>>, t, t), StorageAfterClear(Session(<<>>, t, t)),
                     a.pending),
     status |-> 200]
  ELSE IF p.kind # "string" \/ InvalidAnswer(p.answer) THEN [actor |-> a, status |-> 400]
  ELSE IF SessionFull(a.narrativeState) THEN [actor |-> a, status |-> 400]
  ELSE
    LET pushed == PushAnswer(a.narrativeState, p.answer, t)
    IN [actor |-> Actor(pushed, [a.storage EXCEPT !.narrativeState = <<pushed>>],
                        a.pending),
        status |-> 200]

\* POST /finalize in the instance a up to the generation call; status 0: no
\* response yet
ActorFinalizeStart(a) ==
  IF InsufficientAnswers(a.narrativeState) THEN [actor |-> a, status |-> 400]
  ELSE [actor |-> [a EXCEPT !.pending =
                     Append(@, Continuation(a.narrativeState.answers))],
        status |-> 0]

\* POST /finalize in the instance a from the point where the generation call
\* of its i-th suspended request settles
ActorFinalizeResume(a, i, reply, t) ==
  LET k == a.pending[i]
      aiResponse == AiResponse(reply, k.promptContent)
      data == FinalNarrativeData(FinalNarrativeText(aiResponse, k.promptContent),
                                 a.narrativeState.answers, t)
      rest == RemoveAt(a.pending, i)
  IN IF ShapeCheckThrows(aiResponse.shape)
     THEN [actor |-> [a EXCEPT !.pending = rest], status |-> 500]
     ELSE [actor |-> [a EXCEPT !.pending = rest,
                               !.storage.finalNarrative = <<data>>],
           status |-> 200]

Routed(userId, op, status) == [userId |-> userId, op |-> op, status |-> status]

RouteInit ==
  /\ actors = [id \in RouteIds |-> Absent]
  /\ routed = Routed("", "none", 0)
  /\ routeStarted = 0

\* a request reaches the routing worker
Route(userId, op, result) ==
  /\ routeStarted < MaxRouteRequests
  /\ routeStarted' = routeStarted + 1
  /\ IF InvalidUserId(userId) THEN
       /\ routed' = Routed(userId, op, 400)
       /\ UNCHANGED actors
     ELSE
       /\ actors' = [actors EXCEPT ![IdFromName(userId)] = <<result.actor>>]
       /\ routed' = IF result.status = 0 THEN routed
                    ELSE Routed(userId, op, result.status)

\* app.post('/narrative/update/:userId')
RouteUpdate(userId, p) ==
  Route(userId, "update",
        IF InvalidUserId(userId) THEN <<>>
        ELSE ActorUpdate(Instance(IdFromName(userId), now), p, now))

\* app.post('/narrative/finalize/:userId') up to the generation call
RouteFinalize(userId) ==
  Route(userId, "finalize",
        IF InvalidUserId(userId) THEN <<>>
        ELSE ActorFinalizeStart(Instance(IdFromName(userId), now)))

\* the generation call of a finalize routed for userId settles
RouteFinalizeResume(userId, i, reply) ==
  /\ ~InvalidUserId(userId)
  /\ actors[IdFromName(userId)] # Absent
  /\ i \in 1..Len(actors[IdFromName(userId)][1].pending)
  /\ LET result == ActorFinalizeResume(actors[IdFromName(userId)][1], i, reply, now)
     IN /\ actors' = [actors EXCEPT ![IdFromName(userId)] = <<result.actor>>]
        /\ routed' = Routed(userId, "finalize", result.status)
  /\ UNCHANGED routeStarted

RoutePayloads ==
  {Payload("badjson", <<>>), Payload("string", Hello), Payload("string", Blank),
   Payload("string", ClearCommand)}

RouteReplies == {AiText, AiThrows, AiFirstNullish}

RouteUpdateRequest == \E u \in RouteUsers : \E p \in RoutePayloads : RouteUpdate(u, p)

RouteFinalizeRequest == \E u \in RouteUsers : RouteFinalize(u)

RouteFinalizeSettles ==
  \E u \in RouteUsers : \E i \in 1..MaxRouteRequests : \E reply \in RouteReplies :
    RouteFinalizeResume(u, i, reply)

(* --------- rate limiting middleware (src/unnamed/part_001 84-142) -------- *)
\* getIpAddress(c.req.raw): the identity the counter is kept under
RateIps == {"ip"}

\* the instants Date.now() is observed at: a few offsets into each window
RateOffsets == {0, 1, RateWindowMs - 1}

RateTimes == {w * RateWindowMs + d : w \in 0..MaxRateWindows, d \in RateOffsets}

\* JSON.stringify({ count, windowEnd })
RateCounter(count, windowEnd) == [count |-> count, windowEnd |-> windowEnd]

\* a limit that is never reached
RateExhaustedNever(count) == count < 0

\* a limit that lets one request more through
RateExhaustedOffByOne(count) == count > RateMax

\* line 110
RateExhausted(count) == count >= RateMax

\* a window that is never reset
RateWindowOpenForever(t, windowEnd) == TRUE

\* line 109
RateWindowOpen(t, windowEnd) == t < windowEnd

\* an increment that also moves the end of the window
RateIncrementSliding(current, t) == RateCounter(current.count + 1, t + RateWindowMs)

\* lines 117-120: { count: count + 1, windowEnd }
RateIncrement(current, t) == RateCounter(current.count + 1, current.windowEnd)

\* lines 123-126 and 130-133: { count: 1, windowEnd: now + rateLimit.windowMs }
RateReset(t) == RateCounter(1, t + RateWindowMs)

\* a retryAfter that rounds down
RetryAfterFloor(t, windowEnd) == (windowEnd - t) \div 1000

\* Math.ceil((windowEnd - now) / 1000)
RetryAfter(t, windowEnd) == (windowEnd - t + 999) \div 1000

\* the outcome of a check: the decision, the retryAfter of a 429, and how
\* often it called next(); nth is the ordinal of the check among those that
\* started in the same 60-second window, clean says that so far no two checks
\* overlapped and no storage call failed, afterDeny that the check completed
\* before this one started was denied
RateOutcome(ip, decision, retryAfter, handled, nth, clean, afterDeny) ==
  [ip |-> ip, decision |-> decision, retryAfter |-> retryAfter,
   handled |-> handled, nth |-> nth, clean |-> clean, afterDeny |-> afterDeny]

NoRateOutcome == RateOutcome("", "none", 0, 0, 0, TRUE, FALSE)

\* a request suspended in the middleware: the Date.now() of line 100, the await
\* it is at, the counter it read and the counter it is writing; opened, nth
\* and afterDeny say which window it started in, as which check, and after what
RateRequestAt(ip, t, pc, opened, nth, afterDeny) ==
  [ip |-> ip, now |-> t, pc |-> pc, read |-> <<>>, write |-> <<>>,
   opened |-> opened, nth |-> nth, afterDeny |-> afterDeny]

\* per ip: when the window its checks are counted in was opened, how many
\* checks started in it and how many of them were allowed, whether no two
\* checks overlapped and no storage call failed so far, and whether a storage
\* call failed so far
RateWindow(opened, checks, allowed, clean, faulted) ==
  [opened |-> opened, checks |-> checks, allowed |-> allowed, clean |-> clean,
   faulted |-> faulted]

\* The clock is at 0 and the namespace holds no counter, or the counter that k
\* checks made one after the other at time 0 have left, for some k below the
\* limit.  Or the clock is at 1, a check that started at time 0 is still
\* awaiting its get, and the namespace holds the counter that k checks made
\* one after the other at time 1 have left.
RateInit ==
  /\ \/ /\ now = 0
        /\ \E k \in 0..(RateMax - 1) :
             /\ rateKv = [ip \in RateIps |->
                            IF k = 0 THEN Absent ELSE <<RateCounter(k, RateWindowMs)>>]
             /\ rateGhost = [ip \in RateIps |->
                               RateWindow(IF k = 0 THEN -1 ELSE 0, k, k, TRUE, FALSE)]
        /\ rateReqs = <<>>
     \/ /\ now = 1
        /\ \E k \in 1..(RateMax - 1) :
             /\ rateKv = [ip \in RateIps |-> <<RateCounter(k, 1 + RateWindowMs)>>]
             /\ rateGhost = [ip \in RateIps |-> RateWindow(0, k + 1, k, FALSE, FALSE)]
        /\ rateReqs = <<RateRequestAt("ip", 0, "get", 0, 1, FALSE)>>
  /\ rateResp = NoRateOutcome
  /\ rateStarted = 0

\* time passes
RateTick ==
  /\ \E t \in RateTimes : t > now /\ now' = t
  /\ UNCHANGED <<rateKv, rateReqs, rateResp, rateStarted, rateGhost>>

\* a request enters the middleware: lines 99-104 up to `await RATE_LIMIT_KV.get(ip)`
RateStart(ip) ==
  /\ rateStarted < MaxRateChecks
  /\ Len(rateReqs) < MaxRateInFlight
  /\ rateStarted' = rateStarted + 1
  /\ LET g == rateGhost[ip]
         fresh == g.opened < 0 \/ now >= g.opened + RateWindowMs
         opened == IF fresh THEN now ELSE g.opened
         nth == IF fresh THEN 1 ELSE g.checks + 1
     IN /\ rateGhost' = [rateGhost EXCEPT ![ip] =
                           RateWindow(opened, nth, IF fresh THEN 0 ELSE g.allowed,
                                      g.clean /\ rateReqs = <<>>, g.faulted)]
        /\ rateReqs' = Append(rateReqs,
                              RateRequestAt(ip, now, "get", opened, nth,
                                            rateResp.decision = "deny"))
  /\ UNCHANGED <<rateKv, rateResp, now>>

\* the request r was let through
RateAllowed(r) ==
  [rateGhost EXCEPT ![r.ip].allowed =
     IF rateGhost[r.ip].opened = r.opened THEN @ + 1 ELSE @]

\* a storage call of the request r failed and r was let through
RateFault(r) ==
  [RateAllowed(r) EXCEPT ![r.ip].clean = FALSE, ![r.ip].faulted = TRUE]

\* a catch that answers the request with an error instead of calling next()
RateCatchRejecting(r) == RateOutcome(r.ip, "error", 0, 0, r.nth, FALSE, r.afterDeny)

\* lines 137-141: the catch logs the error and calls next()
RateCatch(r) == RateOutcome(r.ip, "allow", 0, 1, r.nth, FALSE, r.afterDeny)

\* lines 104-134: the get settles.  A rejected get goes to the catch; a
\* counter at the limit inside its window is answered 429; otherwise the
\* counter to write is picked and the put is awaited.
RateGet(i, ok) ==
  LET r == rateReqs[i]
      current == rateKv[r.ip]
      open == current # Absent /\ RateWindowOpen(r.now, current[1].windowEnd)
  IN /\ r.pc = "get"
     /\ UNCHANGED <<rateKv, rateStarted, now>>
     /\ IF ~ok THEN
          /\ rateReqs' = RemoveAt(rateReqs, i)
          /\ rateGhost' = RateFault(r)
          /\ rateResp' = RateCatch(r)
        ELSE IF open /\ RateExhausted(current[1].count) THEN
          /\ rateReqs' = RemoveAt(rateReqs, i)
          /\ rateResp' = RateOutcome(r.ip, "deny", RetryAfter(r.now, current[1].windowEnd),
                                     0, r.nth, rateGhost[r.ip].clean, r.afterDeny)
          /\ UNCHANGED rateGhost
        ELSE
          /\ rateReqs' = [rateReqs EXCEPT ![i] =
               [r EXCEPT !.pc = "put", !.read = current,
                         !.write = IF open
                                   THEN <<RateIncrement(current[1], r.now)>>
                                   ELSE <<RateReset(r.now)>>]]
          /\ UNCHANGED <<rateResp, rateGhost>>

\* a put that adds one to the counter the namespace holds when it lands
RatePutIncrementing(i, ok) ==
  LET r == rateReqs[i]
      stored == rateKv[r.ip]
  IN /\ r.pc = "put"
     /\ rateReqs' = RemoveAt(rateReqs, i)
     /\ UNCHANGED <<rateStarted, now>>
     /\ rateKv' = [rateKv EXCEPT ![r.ip] =
                     IF stored # Absent /\ r.read # Absent
                          /\ stored[1].windowEnd = r.write[1].windowEnd
                     THEN <<RateCounter(stored[1].count + 1, stored[1].windowEnd)>>
                     ELSE r.write]
     /\ rateResp' = RateOutcome(r.ip, "allow", 0, 1, r.nth, rateGhost[r.ip].clean,
                                r.afterDeny)
     /\ rateGhost' = RateAllowed(r)

\* lines 117-137: the put settles and next() runs; a rejected put goes to
\* the catch
RatePut(i, ok) ==
  LET r == rateReqs[i]
  IN /\ r.pc = "put"
     /\ rateReqs' = RemoveAt(rateReqs, i)
     /\ UNCHANGED <<rateStarted, now>>
     /\ IF ok THEN
          /\ rateKv' = [rateKv EXCEPT ![r.ip] = r.write]
          /\ rateResp' = RateOutcome(r.ip, "allow", 0, 1, r.nth, rateGhost[r.ip].clean,
                                     r.afterDeny)
          /\ rateGhost' = RateAllowed(r)
        ELSE
          /\ rateGhost' = RateFault(r)
          /\ rateResp' = RateCatch(r)
          /\ UNCHANGED rateKv

RateRequest == \E ip \in RateIps : RateStart(ip)

RateGetSettles == \E i \in 1..Len(rateReqs) : \E ok \in BOOLEAN : RateGet(i, ok)

RatePutSettles == \E i \in 1..Len(rateReqs) : \E ok \in BOOLEAN : RatePut(i, ok)

(* ---------- in-memory rate limiter (src/unnamed/part_000 43-62) ---------- *)
\* c.req.ip
MemKeys == {"ip"}

\* The Map is empty, or holds the entry that k requests made at time 0 have
\* left, for some k below the limit.
MemInit ==
  /\ \E k \in 0..(RateMax - 1) :
       limiter = [key \in MemKeys |->
                    IF k = 0 THEN Absent
                    ELSE <<[count |-> k, reset |-> RateWindowMs]>>]
  /\ memResp = [key |-> "", decision |-> "none", now |-> 0]
  /\ memStarted = 0

\* lines 49-62: the middleware runs to next() without an await
MemCheck(key) ==
  /\ memStarted < MaxRateChecks
  /\ memStarted' = memStarted + 1
  /\ IF limiter[key] # Absent THEN
       IF RateExhausted(limiter[key][1].count) THEN
         /\ memResp' = [key |-> key, decision |-> "deny", now |-> now]
         /\ UNCHANGED limiter
       ELSE
         /\ limiter' = [limiter EXCEPT ![key] =
                          <<[count |-> limiter[key][1].count + 1,
                             reset |-> limiter[key][1].reset]>>]
         /\ memResp' = [key |-> key, decision |-> "allow", now |-> now]
     ELSE
       /\ limiter' = [limiter EXCEPT ![key] =
                        <<[count |-> 1, reset |-> now + RateWindowMs]>>]
       /\ memResp' = [key |-> key, decision |-> "allow", now |-> now]
  /\ UNCHANGED now

MemTick ==
  /\ \E t \in RateTimes : t > now /\ now' = t
  /\ UNCHANGED <<limiter, memResp, memStarted>>

MemRequest == \E key \in MemKeys : MemCheck(key)

(* --------------------------- specifications ---------------------------- *)
\* both rate limiters before their first request
LimitersIdle ==
  /\ RateInit /\ MemInit
  /\ rateReqs = <<>>
  /\ rateKv = [ip \in RateIps |-> Absent]
  /\ limiter = [key \in MemKeys |-> Absent]

\* the Durable Object worker; the KV namespace of the other worker stays empty
Init == DoInit /\ KvInit /\ RouteInit /\ LimitersIdle /\ kv["u"] = Absent

Next ==
  \/ Constructor /\ UNCHANGED notDo
  \/ ConstructorLoad /\ UNCHANGED notDo
  \/ Tick /\ UNCHANGED <<loading, notDo>>
  \/ InputGateOpen /\ OtherRequest /\ UNCHANGED <<loading, notDo>>
  \/ InputGateOpen /\ UpdateRequest /\ UNCHANGED <<loading, notDo>>
  \/ InputGateOpen /\ FinalizeStart /\ UNCHANGED <<loading, notDo>>
  \/ InputGateOpen /\ FinalizeSettles /\ UNCHANGED <<loading, notDo>>

Spec == Init /\ [][Next]_vars

\* the KV worker; the Durable Object stays as constructed over an empty storage
InitKV == DoInit /\ KvInit /\ RouteInit /\ LimitersIdle /\ storage.narrativeState = Absent

NextKV ==
  \/ KvUpdateRequest /\ UNCHANGED notKv
  \/ KvFinalizeRequest /\ UNCHANGED notKv
  \/ KvUpdateGetSettles /\ UNCHANGED notKv
  \/ KvUpdatePutSettles /\ UNCHANGED notKv
  \/ KvFinalizeGetSettles /\ UNCHANGED notKv
  \/ KvFinalizeAiSettles /\ UNCHANGED notKv
  \/ KvFinalizePutSettles /\ UNCHANGED notKv
  \/ Tick /\ UNCHANGED <<loading, notDo>>

SpecKV == InitKV /\ [][NextKV]_vars

\* Both workers with storage calls that may fail.  One worker is deployed in a
\* behaviour: the one whose store holds a session at the start.  The Durable
\* Object is followed through one instant of its clock, and the requests it
\* receives are the POST /update requests.
InitFault ==
  DoInit /\ KvInit /\ RouteInit /\ LimitersIdle
    /\ ((storage.narrativeState = Absent) # (kv["u"] = Absent))

DoServes == kv["u"] = Absent

NextFault ==
  \/ DoServes /\ Constructor /\ UNCHANGED notDo
  \/ DoServes /\ ConstructorLoad /\ UNCHANGED notDo
  \/ ~DoServes /\ Tick /\ UNCHANGED <<loading, notDo>>
  \/ DoServes /\ InputGateOpen /\ UpdateRequest /\ UNCHANGED <<loading, notDo>>
  \/ DoServes /\ InputGateOpen /\ UpdateStorageFailure /\ UNCHANGED <<loading, notDo>>
  \/ ~DoServes /\ KvUpdateRequest /\ UNCHANGED notKv
  \/ ~DoServes /\ KvFinalizeRequest /\ UNCHANGED notKv
  \/ ~DoServes /\ KvUpdateGetSettles /\ UNCHANGED notKv
  \/ ~DoServes /\ KvUpdatePutSettles /\ UNCHANGED notKv
  \/ ~DoServes /\ KvFinalizeGetSettles /\ UNCHANGED notKv
  \/ ~DoServes /\ KvFinalizeAiSettles /\ UNCHANGED notKv
  \/ ~DoServes /\ KvFinalizePutSettles /\ UNCHANGED notKv

SpecFault == InitFault /\ [][NextFault]_vars

\* the routing worker in front of the instances of the Durable Object
notRoute == <<doVars, kvVars, rateVars, memVars>>

InitRoute ==
  DoInit /\ KvInit /\ RouteInit /\ LimitersIdle
    /\ storage.narrativeState = Absent /\ kv["u"] = Absent

NextRoute ==
  \/ RouteUpdateRequest /\ UNCHANGED <<now, notRoute>>
  \/ RouteFinalizeRequest /\ UNCHANGED <<now, notRoute>>
  \/ RouteFinalizeSettles /\ UNCHANGED <<now, notRoute>>
  \/ Tick /\ UNCHANGED <<loading, kvVars, routeVars, rateVars, memVars>>

SpecRoute == InitRoute /\ [][NextRoute]_vars

\* the rate limiting middleware of the KV worker
notRate == <<doVars, kvVars, routeVars, memVars>>

WorkersIdle ==
  DoConstructed(0) /\ KvInit /\ RouteInit
    /\ storage.narrativeState = Absent /\ kv["u"] = Absent

InitRate ==
  WorkersIdle /\ RateInit /\ MemInit /\ limiter = [key \in MemKeys |-> Absent]

NextRate ==
  \/ RateRequest /\ UNCHANGED notRate
  \/ RateGetSettles /\ UNCHANGED notRate
  \/ RatePutSettles /\ UNCHANGED notRate
  \/ RateTick /\ UNCHANGED notRate

SpecRate == InitRate /\ [][NextRate]_vars

\* the in-memory limiter
notMem == <<doVars, kvVars, routeVars, rateVars>>

NextMem ==
  \/ MemRequest /\ UNCHANGED notMem
  \/ MemTick /\ UNCHANGED notMem

InitMem ==
  WorkersIdle /\ RateInit /\ MemInit
    /\ rateReqs = <<>> /\ rateKv = [ip \in RateIps |-> Absent]

SpecMem == InitMem /\ [][NextMem]_vars

(* ------------------------------ claims --------------------------------- *)
CapacityError == "Maximum number of answers reached"

InvalidError == "Invalid answer provided"

InsufficientError == InsufficientText

\* the request answered by resp' carried a string that passes the validation
\* of /update and is not the clear command
AnsweredValidAppend ==
  /\ resp'.op = "update"
  /\ resp'.request.kind = "string"
  /\ resp'.request.answer # <<>>
  /\ StrLen(Trim(resp'.request.answer)) > 0
  /\ StrLen(resp'.request.answer) <= MaxAnswerLength

\* C1: in every reachable state the in-memory answer list and the answer list
\* persisted under 'narrativeState' (when one is persisted) hold between 0 and
\* 20 answers.
C1_AnswerCountBounded ==
  /\ Len(narrativeState.answers) \in 0..MaxAnswers
  /\ storage.narrativeState # Absent =>
       Len(storage.narrativeState[1].answers) \in 0..MaxAnswers

\* the 20th answer has just been accepted and persisted
C1_Witness ==
  /\ Len(narrativeState.answers) = MaxAnswers
  /\ storage.narrativeState = <<narrativeState>>
  /\ resp.op = "update" /\ resp.status = 200

\* C2: the answerCount of every acknowledged append is the number of appends
\* acknowledged since the session was empty, and the metadata.answerCount of
\* every finalize success is that number too.
C2_AnswerCountIsAcceptedCount ==
  /\ (resp.op = "update" /\ resp.status = 200) => resp.answerCount = accepted
  /\ (resp.op = "finalize" /\ resp.status = 200) => resp.data[1].answerCount = accepted

\* a finalize issued after the 20th acknowledged append has answered
C2_Witness ==
  /\ resp.op = "finalize" /\ resp.status = 200
  /\ accepted = MaxAnswers
  /\ resp.data[1].answerCount = MaxAnswers
  /\ resets = 0

\* C3 as stated: once a final record is stored, no append is acknowledged
\* until a reset removes the record.
C3_NoAppendAfterFinalize ==
  storage.finalNarrative # Absent => ~(resp.op = "update" /\ resp.status = 200)

\* C3 amended: an append that finds a stored final record is treated like any
\* other append: a valid answer offered to a session of fewer than 20 answers
\* is acknowledged and appended (trimmed), and the final record stays as it is.
C3_AppendAfterFinalizeAccepted ==
  [][(/\ UpdateRequest
      /\ AnsweredValidAppend
      /\ storage.finalNarrative # Absent
      /\ Len(narrativeState.answers) < MaxAnswers)
     => (/\ resp'.status = 200
         /\ narrativeState'.answers =
              Append(narrativeState.answers, Trim(resp'.request.answer))
         /\ storage'.narrativeState = <<narrativeState'>>
         /\ storage'.finalNarrative = storage.finalNarrative)]_vars

\* an append was acknowledged while a final record is stored
C3_Witness ==
  /\ storage.finalNarrative # Absent
  /\ resp.op = "update" /\ resp.status = 200
  /\ Len(narrativeState.answers) = storage.finalNarrative[1].answerCount + 1

C5_FinalizeAtomic ==
  (resp.op = "finalize" /\ resp.status = 200) =>
    /\ resp.data[1].answerCount = Len(resp.basis)
    /\ resp.data[1].mojoScore = MojoScore(resp.basis)

\* C6: a reset is accepted in every state, and the step that answers it leaves
\* an empty session whose createdAt is not earlier than before, persists that
\* session and leaves no final record.
C6_ResetYieldsFreshSession ==
  /\ [](resets < MaxResets => ENABLED Update(Payload("string", ClearCommand)))
  /\ [][(UpdateRequest /\ resp'.op = "clear")
        => (/\ resp'.status = 200
            /\ narrativeState'.answers = <<>>
            /\ narrativeState'.createdAt >= narrativeState.createdAt
            /\ storage'.narrativeState = <<narrativeState'>>
            /\ storage'.finalNarrative = Absent)]_vars

\* a reset has discarded a full session and its final record at a later time
C6_Witness ==
  /\ resp.op = "clear" /\ resp.status = 200
  /\ Len(resp.basis) = MaxAnswers
  /\ resp.prior # Absent
  /\ narrativeState.answers = <<>>
  /\ narrativeState.createdAt > 0
  /\ storage.finalNarrative = Absent

\* C7: a valid answer offered to a session of 20 answers is refused with the
\* capacity error, and the in-memory and the persisted session stay as they are.
C7_FullSessionRefusesAppend ==
  [][(UpdateRequest /\ AnsweredValidAppend /\ Len(narrativeState.answers) = MaxAnswers)
     => (/\ resp'.status = 400
         /\ resp'.error = CapacityError
         /\ UNCHANGED <<narrativeState, storage>>)]_vars

\* a full session has refused a valid answer
C7_Witness ==
  /\ resp.op = "update" /\ resp.status = 400 /\ resp.error = CapacityError
  /\ resp.request.answer = Hello
  /\ Len(narrativeState.answers) = MaxAnswers
  /\ Len(storage.narrativeState[1].answers) = MaxAnswers

\* C8: an empty string, a whitespace-only string and a string of 1001 or more
\* characters are refused with the invalid-answer error, and the in-memory
\* session (answers, lastUpdated) and the storage stay as they are.
C8_InvalidAnswerRefused ==
  [][(/\ UpdateRequest
      /\ resp'.op = "update"
      /\ resp'.request.kind = "string"
      /\ \/ resp'.request.answer = <<>>
         \/ StrLen(Trim(resp'.request.answer)) = 0
         \/ StrLen(resp'.request.answer) >= MaxAnswerLength + 1)
     => (/\ resp'.status = 400
         /\ resp'.error = InvalidError
         /\ UNCHANGED <<narrativeState, storage>>)]_vars

\* a whitespace-only answer has been refused by a session that had room
C8_Witness ==
  /\ resp.op = "update" /\ resp.status = 400 /\ resp.error = InvalidError
  /\ resp.request.answer = Blank
  /\ Len(narrativeState.answers) < MaxAnswers

\* C9: a finalize of a session without answers is refused with the
\* insufficient-answers error, writes nothing, leaves the session as it is and
\* does not call the generation service.
C9_EmptyFinalizeRefused ==
  [][(FinalizeStart /\ Len(narrativeState.answers) = 0)
     => (/\ resp'.op = "finalize"
         /\ resp'.status = 400
         /\ resp'.error = InsufficientError
         /\ UNCHANGED <<narrativeState, storage, pending, aiCalls>>)]_vars

\* an empty session has refused a finalize
C9_Witness ==
  /\ resp.op = "finalize" /\ resp.status = 400 /\ resp.error = InsufficientError
  /\ narrativeState.answers = <<>>
  /\ storage.finalNarrative = Absent
  /\ aiCalls = 0

\* C10: when the generation call of a finalize over at least one answer
\* throws, the finalize is not answered with an error: it goes on to persist a
\* record whose narrativeText contains the newline-joined answers.  Stated for
\* both workers: the Durable Object answers and persists in the same step, the
\* KV worker goes on to its put.
C10_GenerationFailureNotSurfaced ==
  [][/\ \A i \in 1..Len(pending) :
          FinalizeResume(i, AiThrows) =>
            /\ resp'.op = "finalize" /\ resp'.status = 200
            /\ storage'.finalNarrative = resp'.data
            /\ Contains(resp'.data[1].narrativeText, Join(pending[i].answers))
     /\ \A i \in 1..Len(kvReqs) :
          KvFinalizeAi(i, AiThrows) =>
            /\ Len(kvReqs') = Len(kvReqs)
            /\ kvReqs'[i].pc = "put"
            /\ Contains(kvReqs'[i].data[1].narrativeText,
                        Join(kvReqs[i].state[1].answers))]_vars

\* the replies with which the generation call resolves without the expected
\* text: every shape the condition of lines 179-185 does not accept
ShapesWithoutText == {reply \in AiReplies : ~reply.throws /\ ~ShapeCheck(reply)}

\* C11: whatever shape without the expected text the generation service
\* resolves with, the finalize takes the fallback path: it answers 200, stores
\* the record it returns, and the record's narrativeText contains the joined
\* answers; no such shape makes it answer with an error.
C11_MissingTextFallsBack ==
  [][\A i \in 1..Len(pending) : \A reply \in ShapesWithoutText :
       FinalizeResume(i, reply) =>
         /\ resp'.op = "finalize" /\ resp'.status = 200
         /\ storage'.finalNarrative = resp'.data
         /\ Contains(resp'.data[1].narrativeText, Join(pending[i].answers))]_vars

\* min(floor(10*totalLen/n + 20*min(n/10, 1)), 100) for n >= 1, with the sum
\* brought over the common denominator 10*n:
\* 10*totalLen/n + 20*min(n, 10)/10 = (100*totalLen + 20*n*min(n, 10)) / (10*n)
ExpectedScore(answers) ==
  LET n == Len(answers)
      totalLen == TotalAnswerLength(answers)
  IN Min((100 * totalLen + 20 * n * Min(n, 10)) \div (10 * n), 100)

\* C12: a finalize that succeeds over a non-empty answer list returns and
\* stores mojoScore = min(floor(10*totalLen/n + 20*min(n/10, 1)), 100), n and
\* totalLen being the number and the total length of the session's answers
\* when the score is computed; the score is the same whatever the generation
\* service replied, and it is 64 for the answers "hello", "world!!".
C12_MojoScoreFormula ==
  /\ MojoScore(<<Hello, Trim(WorldRaw)>>) = Num(64)
  /\ [][\A i \in 1..Len(pending) : \A reply \in AiReplies :
          (FinalizeResume(i, reply) /\ resp'.status = 200
             /\ narrativeState.answers # <<>>) =>
            /\ resp'.data[1].mojoScore = Num(ExpectedScore(narrativeState.answers))
            /\ storage'.finalNarrative[1].mojoScore = resp'.data[1].mojoScore]_vars

\* a finalize over "world!!", "hello" has returned the score 64
C12_Witness ==
  /\ resp.op = "finalize" /\ resp.status = 200
  /\ narrativeState.answers = <<Trim(WorldRaw), Hello>>
  /\ resp.basis = narrativeState.answers
  /\ resp.data[1].mojoScore = Num(64)

\* C13: every final record that a finalize returns or stores has a mojoScore
\* that is an integer between 0 and 100, whatever appends and resets ran
\* while its generation call was pending.
C13_ScoreIsIntegerInRange ==
  /\ storage.finalNarrative # Absent =>
       /\ ~storage.finalNarrative[1].mojoScore.nan
       /\ storage.finalNarrative[1].mojoScore.val \in 0..ScoreCap
  /\ (resp.op = "finalize" /\ resp.status = 200) =>
       /\ ~resp.data[1].mojoScore.nan
       /\ resp.data[1].mojoScore.val \in 0..ScoreCap

\* C14: the operations of one actor complete in the order in which the actor
\* accepted them: while a finalize is pending, the next operation to complete
\* is the finalize that was accepted first; no append, reset or later
\* finalize is answered or takes effect before it.
C14_CompletionInAcceptanceOrder ==
  [][(pending # <<>> /\ (UpdateRequest \/ FinalizeSettles
                           \/ (FinalizeStart /\ pending' = pending))) =>
       pending' = Tail(pending)]_vars

\* C16: the load of a persisted session completes before the actor processes
\* its first operation: whenever an append, a reset, a finalize or any other
\* request is processed and a persisted session exists, the session in memory
\* is the persisted one, never the constructor's default.
C16_LoadBeforeFirstOperation ==
  [][((OtherRequest \/ UpdateRequest \/ FinalizeStart \/ FinalizeSettles)
        /\ storage.narrativeState # Absent) =>
       narrativeState = storage.narrativeState[1]]_vars

\* a new instance holds the constructor's default while the session persisted
\* by appends of an earlier instance is being loaded, and no request gets in
C16_Witness ==
  /\ loading
  /\ appends > 0
  /\ storage.narrativeState # Absent
  /\ storage.narrativeState[1].answers # <<>>
  /\ narrativeState.answers = <<>>
  /\ ~ENABLED (InputGateOpen /\ UpdateRequest)

\* C17: an append whose write of the session fails is answered with an error,
\* never with success, and an append is answered 200 only when the stored
\* session is the one that contains the new answer.  Stated for both workers.
C17_FailedWriteNotAcknowledged ==
  [][/\ \A a \in ValidInputs :
          UpdateStorageFails(Payload("string", a), "put") =>
            /\ resp'.op = "update" /\ resp'.status = 500
            /\ resp'.error # ""
     /\ ((UpdateRequest \/ UpdateStorageFailure)
           /\ resp'.op = "update" /\ resp'.status = 200) =>
          /\ storage'.narrativeState = <<narrativeState'>>
          /\ narrativeState'.answers =
               Append(narrativeState.answers, Trim(resp'.request.answer))
          /\ resp'.answerCount = Len(storage'.narrativeState[1].answers)
     /\ \A i \in 1..Len(kvReqs) :
          /\ KvUpdatePut(i, FALSE) =>
               /\ kvResp'.op = "kvupdate" /\ kvResp'.status = 500
               /\ kvResp'.error # ""
          /\ (\E ok \in BOOLEAN : KvUpdatePut(i, ok) /\ kvResp'.status = 200) =>
               /\ kv'[kvReqs[i].userId] = <<SessionJson(kvReqs[i].state[1])>>
               /\ Last(kvReqs[i].state[1].answers) = Trim(kvReqs[i].answer)]_vars

\* an append was pushed in memory, its put failed, and it was answered 500:
\* the stored session does not contain the answer
C17_Witness ==
  /\ resp.op = "update" /\ resp.status = 500
  /\ resp.request.kind = "string" /\ resp.request.answer \in ValidInputs
  /\ narrativeState.answers # <<>>
  /\ Last(narrativeState.answers) = Trim(resp.request.answer)
  /\ storage.narrativeState # Absent
  /\ Len(storage.narrativeState[1].answers) = Len(narrativeState.answers) - 1

\* the request of the step is addressed to userId
AddressedTo(userId) ==
  \/ \E p \in RoutePayloads : RouteUpdate(userId, p)
  \/ RouteFinalize(userId)
  \/ \E i \in 1..MaxRouteRequests : \E reply \in RouteReplies :
       RouteFinalizeResume(userId, i, reply)

\* C15: an append, a reset or a finalize addressed to one userId leaves the
\* session (answers and timestamps), the stored session and the stored final
\* record of every other userId unchanged.
C15_OtherUsersUntouched ==
  [][\A a \in RouteUsers : \A b \in RouteUsers \ {a} :
       (AddressedTo(a) /\ ~InvalidUserId(b)) =>
         actors'[IdFromName(b)] = actors[IdFromName(b)]]_vars

\* alice's finalize has just stored her final record while bob holds a
\* session of his own and no final record
C15_Witness ==
  /\ routed = Routed("alice", "finalize", 200)
  /\ actors[IdFromName("alice")] # Absent
  /\ actors[IdFromName("alice")][1].storage.finalNarrative # Absent
  /\ actors[IdFromName("bob")] # Absent
  /\ actors[IdFromName("bob")][1].narrativeState.answers = <<Hello>>
  /\ actors[IdFromName("bob")][1].storage.finalNarrative = Absent

\* C18: when the checks of one identity run one after the other and the
\* storage calls succeed, the first 10 checks that start inside one 60-second
\* window are allowed and the 11th and every later one inside that window is
\* denied.
C18_TenPerWindow ==
  (rateResp.decision # "none" /\ rateResp.clean) =>
    /\ rateResp.nth \in 1..10 => rateResp.decision = "allow"
    /\ rateResp.nth >= 11 => rateResp.decision = "deny"

\* the 11th check of a window has been denied after ten sequential checks
\* have brought the counter to 10
C18_Witness ==
  /\ rateResp.decision = "deny" /\ rateResp.clean /\ rateResp.nth = 11
  /\ rateKv["ip"] # Absent
  /\ rateKv["ip"][1].count = 10
  /\ now < rateKv["ip"][1].windowEnd

\* C19: a check that started at a time now >= windowEnd of the counter it
\* reads is not denied: it picks the counter {count: 1, windowEnd: now + 60000},
\* and when its put succeeds that counter is stored and the check is allowed.
C19_ElapsedWindowResets ==
  [][\A i \in 1..Len(rateReqs) :
       LET r == rateReqs[i] IN
       /\ (RateGet(i, TRUE) /\ rateKv[r.ip] # Absent
             /\ r.now >= rateKv[r.ip][1].windowEnd) =>
            /\ Len(rateReqs') = Len(rateReqs)
            /\ rateReqs'[i].pc = "put"
            /\ rateReqs'[i].write = <<RateCounter(1, r.now + 60000)>>
       /\ (RatePut(i, TRUE) /\ r.read # Absent /\ r.now >= r.read[1].windowEnd) =>
            /\ rateResp'.decision = "allow"
            /\ rateKv'[r.ip] = <<RateCounter(1, r.now + 60000)>>]_vars

\* an identity that was being denied has been allowed after its window
\* elapsed, and its counter is the freshly reset one
C19_Witness ==
  /\ rateResp.decision = "allow" /\ rateResp.afterDeny /\ rateResp.clean
  /\ rateResp.nth = 1
  /\ rateKv["ip"] = <<RateCounter(1, now + 60000)>>
  /\ now >= 60000

\* C20: in the in-memory limiter, a request of an identity whose 60-second
\* window has elapsed is allowed and starts a new count, also when the
\* identity had used its 10 requests.
C20_InMemoryWindowResets ==
  [][\A key \in MemKeys :
       (MemCheck(key) /\ limiter[key] # Absent /\ now >= limiter[key][1].reset) =>
         /\ memResp'.decision = "allow"
         /\ limiter'[key][1].count = 1]_vars

\* C21: when the get or the put of a check fails, the error is swallowed: the
\* request is let through, next() is called exactly once for it, and the
\* stored counter is left as it was.
C21_FailOpen ==
  [][\A i \in 1..Len(rateReqs) :
       (RateGet(i, FALSE) \/ RatePut(i, FALSE)) =>
         /\ rateResp'.decision = "allow"
         /\ rateResp'.handled = 1
         /\ rateReqs' = RemoveAt(rateReqs, i)
         /\ rateKv' = rateKv]_vars

\* a request was let through although no counter was ever stored: a storage
\* call of its check failed
C21_Witness ==
  /\ rateResp.decision = "allow" /\ rateResp.handled = 1
  /\ rateGhost["ip"].faulted
  /\ rateKv["ip"] = Absent
  /\ rateReqs = <<>>

\* C22: the put of a check writes the counter that the check computed from
\* what it read - inside the window the count it read plus one - whatever
\* the namespace holds when the put lands; so two overlapping checks that
\* read the same count c < 10 both write c + 1, and more than 10 checks of
\* one window can be allowed.
C22_PutWritesWhatItRead ==
  [][\A i \in 1..Len(rateReqs) :
       LET r == rateReqs[i] IN
       RatePut(i, TRUE) =>
         /\ rateKv'[r.ip] = r.write
         /\ (r.read # Absent /\ r.now < r.read[1].windowEnd) =>
              /\ r.read[1].count < 10
              /\ r.write = <<[count |-> r.read[1].count + 1,
                              windowEnd |-> r.read[1].windowEnd]>>]_vars

\* without any storage failure, 11 checks that started inside one window have
\* been allowed, and the stored count is 10
C22_Witness ==
  /\ ~rateGhost["ip"].faulted
  /\ rateGhost["ip"].allowed = 11
  /\ rateReqs = <<>>
  /\ rateKv["ip"] # Absent
  /\ rateKv["ip"][1].count = 10
  /\ now < rateKv["ip"][1].windowEnd

\* the 429 of the step carries retryAfter = ceil((windowEnd - now) / 1000)
DenyCarriesCeiling(i) ==
  LET r == rateReqs[i]
      distance == rateKv[r.ip][1].windowEnd - r.now
  IN /\ 1000 * (rateResp'.retryAfter - 1) < distance
     /\ distance <= 1000 * rateResp'.retryAfter

\* the check i is answered 429 in the step
Denies(i) ==
  /\ RateGet(i, TRUE)
  /\ rateReqs' = RemoveAt(rateReqs, i)
  /\ rateResp'.decision = "deny"

\* C23 as stated: every 429 carries retryAfter = ceil((windowEnd - now) / 1000),
\* an integer between 1 and 60.
C23_RetryAfterBetween1And60 ==
  [][\A i \in 1..Len(rateReqs) :
       Denies(i) => (DenyCarriesCeiling(i) /\ rateResp'.retryAfter \in 1..60)]_vars

\* C23 amended: every 429 carries retryAfter = ceil((windowEnd - now) / 1000),
\* now being the Date.now() taken when the check started; it is an integer
\* that is at least 1, and it is at most 60 when the check started no earlier
\* than the check that opened the window it reads - in particular when the
\* checks do not overlap.
C23_RetryAfterAtLeast1 ==
  [][\A i \in 1..Len(rateReqs) :
       Denies(i) =>
         /\ DenyCarriesCeiling(i)
         /\ rateResp'.retryAfter >= 1
         /\ (rateResp'.clean
               \/ rateReqs[i].now + 60000 >= rateKv[rateReqs[i].ip][1].windowEnd) =>
              rateResp'.retryAfter <= 60]_vars

\* a check that started 1 ms into a window that ends at 60000 has been
\* denied with retryAfter 60 = ceil(59999 / 1000)
C23_Witness ==
  /\ rateResp.decision = "deny" /\ rateResp.retryAfter = 60
  /\ now = 1
  /\ rateKv["ip"] = <<RateCounter(10, 60000)>>
  /\ rateReqs = <<>>

\* C24: an append whose text, once trimmed, is non-empty and at most 1000
\* characters long is accepted by a session that holds fewer than 20 answers,
\* whatever the length of the untrimmed text.
C24_TrimmedTextIsValidated ==
  [][\A a \in AnswerInputs(Len(narrativeState.answers)) :
       (/\ Update(Payload("string", a))
        /\ StrLen(Trim(a)) >= 1
        /\ StrLen(Trim(a)) <= 1000
        /\ Len(narrativeState.answers) < 20)
       => /\ resp'.status = 200
          /\ narrativeState'.answers = Append(narrativeState.answers, Trim(a))]_vars

\* C25: an append whose text is non-empty after trimming and at most 1000
\* characters long, offered to a session that holds fewer than 20 answers,
\* yields the previous list followed by the trimmed text; no such text is
\* taken for a command.
C25_ValidTextIsStored ==
  [][\A a \in AnswerInputs(Len(narrativeState.answers)) \cup {ClearCommand} :
       (/\ Update(Payload("string", a))
        /\ StrLen(Trim(a)) >= 1
        /\ StrLen(a) <= 1000
        /\ Len(narrativeState.answers) < 20)
       => narrativeState'.answers = Append(narrativeState.answers, Trim(a))]_vars

\* C26: a finalize that finds at least one answer calls the generation
\* service once; an append, a reset, any other request, a finalize that finds
\* no answer, and the continuation of a finalize after the call call it not
\* at all.
C26_OneGenerationCallPerFinalize ==
  [][/\ (FinalizeStart /\ Len(narrativeState.answers) >= 1) => aiCalls' = aiCalls + 1
     /\ (FinalizeStart /\ Len(narrativeState.answers) = 0) =>
          (aiCalls' = aiCalls /\ resp'.error = InsufficientText)
     /\ (UpdateRequest \/ OtherRequest \/ FinalizeSettles \/ Constructor
           \/ ConstructorLoad \/ Tick) => aiCalls' = aiCalls]_vars

\* one finalize was answered with a record after one call, and a second one,
\* issued after a reset, was rejected without a call
C26_Witness ==
  /\ aiCalls = 1
  /\ resets = 1
  /\ storage.finalNarrative = Absent
  /\ resp.op = "finalize" /\ resp.status = 400 /\ resp.error = InsufficientText
  /\ pending = <<>>

\* an append of the step was accepted
Pushes ==
  /\ UpdateRequest
  /\ resp'.op = "update" /\ resp'.status = 200

\* a reset of the step was carried out
Clears ==
  /\ UpdateRequest
  /\ resp'.op = "clear"

C28_NoRecordAfterReset ==
  [][\A i \in 1..Len(pending) : \A reply \in AiReplies :
       (FinalizeResume(i, reply) /\ resets > 0 /\ narrativeState.answers = <<>>)
       => storage'.finalNarrative = Absent]_vars

\* C29: an append that is answered with an error - a 400, or the 500 of a
\* failed storage write - leaves the answer list in memory as it was.
C29_FailedAppendLeavesMemory ==
  [][((UpdateRequest \/ UpdateStorageFailure)
        /\ resp'.op = "update" /\ resp'.status # 200)
     => narrativeState'.answers = narrativeState.answers]_vars

\* the key the step of request i gets or puts
KvKeyOf(i) ==
  IF kvReqs[i].op = "finalize" /\ kvReqs[i].pc = "put"
  THEN FinalKey(kvReqs[i].userId)
  ELSE kvReqs[i].userId

\* request i gets or puts its key in the step
KvStorageStep(i) ==
  \/ KvUpdateGet(i)
  \/ KvFinalizeGet(i)
  \/ \E ok \in BOOLEAN : KvUpdatePut(i, ok) \/ KvFinalizePut(i, ok)

\* C30: the final record stored for user "u" under "u_final" is neither read
\* nor written by a request addressed to another user id.
C30_FinalRecordOfOneUser ==
  [][\A i \in 1..Len(kvReqs) :
       (/\ KvStorageStep(i)
        /\ kvReqs[i].userId # "u"
        /\ kv[FinalKey("u")] # Absent
        /\ kv[FinalKey("u")][1].type = "final")
       => /\ KvKeyOf(i) # FinalKey("u")
          /\ kv'[FinalKey("u")] = kv[FinalKey("u")]]_vars

\* C31: a finalize - rejected, suspended at the generation call, or resumed
\* and answered - leaves the session in memory and the stored 'narrativeState'
\* as they were; in storage it changes at most 'finalNarrative'.
C31_FinalizeKeepsSession ==
  [][(FinalizeStart \/ FinalizeSettles) =>
       /\ narrativeState'.answers = narrativeState.answers
       /\ narrativeState'.createdAt = narrativeState.createdAt
       /\ narrativeState'.lastUpdated = narrativeState.lastUpdated
       /\ storage'.narrativeState = storage.narrativeState]_vars

\* a finalize was answered with a record, the record is stored, and the
\* stored session is still the session in memory, answers included
C31_Witness ==
  /\ resp.op = "finalize" /\ resp.status = 200
  /\ storage.finalNarrative = resp.data
  /\ storage.narrativeState = <<narrativeState>>
  /\ Len(narrativeState.answers) >= 1
  /\ resp.basis = narrativeState.answers

\* C32: every counter in the namespace, and every counter a check is about
\* to write, has a count between 1 and 10, however the checks interleave.
C32_StoredCountBetween1And10 ==
  /\ \A ip \in RateIps :
       rateKv[ip] # Absent => (rateKv[ip][1].count >= 1 /\ rateKv[ip][1].count <= 10)
  /\ \A i \in 1..Len(rateReqs) :
       rateReqs[i].pc = "put" =>
         (rateReqs[i].write[1].count >= 1 /\ rateReqs[i].write[1].count <= 10)

\* two overlapping checks both read 9: one has written 10, the other is
\* about to write 10 again
C32_Witness ==
  /\ rateKv["ip"] # Absent
  /\ rateKv["ip"][1].count = 10
  /\ Len(rateReqs) = 1
  /\ rateReqs[1].pc = "put"
  /\ rateReqs[1].read # Absent
  /\ rateReqs[1].read[1].count = 9
  /\ rateReqs[1].write[1].count = 10

\* the put of check i lands in the step and is an increment: the check found
\* its window open
Increments(i) ==
  /\ RatePut(i, TRUE)
  /\ rateReqs[i].read # Absent
  /\ rateReqs[i].now < rateReqs[i].read[1].windowEnd

\* C33 as stated: a 429 leaves the stored counter as it was, and an increment
\* leaves the stored windowEnd as it was.
C33_WindowEndNeverChanged ==
  [][\A i \in 1..Len(rateReqs) :
       /\ Denies(i) => rateKv' = rateKv
       /\ Increments(i) =>
            /\ rateKv[rateReqs[i].ip] # Absent
            /\ rateKv'[rateReqs[i].ip][1].windowEnd
                 = rateKv[rateReqs[i].ip][1].windowEnd]_vars

\* C33 amended: a 429 leaves the stored counter as it was; an increment
\* writes the windowEnd the check read, and leaves the stored windowEnd as it
\* was when no other put has changed the counter since the check read it.
C33_WindowEndAsRead ==
  [][\A i \in 1..Len(rateReqs) :
       LET r == rateReqs[i] IN
       /\ Denies(i) => rateKv' = rateKv
       /\ Increments(i) =>
            /\ rateKv'[r.ip][1].windowEnd = r.read[1].windowEnd
            /\ rateKv'[r.ip][1].count = r.read[1].count + 1
            /\ rateKv[r.ip] = r.read =>
                 rateKv'[r.ip][1].windowEnd = rateKv[r.ip][1].windowEnd]_vars

\* the counter seeded at time 0 was incremented to the limit and a check at
\* the last instant of the window was then denied: the window still ends
\* where it did
C33_Witness ==
  /\ rateResp.decision = "deny"
  /\ rateResp.clean
  /\ now = RateWindowMs - 1
  /\ rateKv["ip"] = <<RateCounter(10, RateWindowMs)>>
  /\ rateStarted >= 2
  /\ rateReqs = <<>>

====
